---- MODULE Spec2Model ----
(***************************************************************************)
(* Story Teller API: the asynchronous task layer.                          *)
(*                                                                         *)
(* The API process submits tasks through TaskService (send_task by name),  *)
(* Celery workers execute the task bodies of app/celery_app/tasks, and the *)
(* result backend keeps one meta record per task id until it expires.      *)
(* Python's None is the empty sequence <<>>, a present value v is <<v>>.   *)
(***************************************************************************)
EXTENDS Integers, FiniteSets, Sequences, TLC

----------------------------------------------------------------------------
(* Bounds of the model. *)

\* number of API calls (each generates at most one task id) in a behaviour
MaxTasks == 1
\* number of API calls in a behaviour of SpecPair
PairTasks == 2
\* number of worker processes that may be lost while executing a task
MaxLost == 1
\* number of worker pool slots
NumWorkers == 2

----------------------------------------------------------------------------
(* Program constants. *)

\* self.retry(countdown=60, ...) in every task body
RetryCountdown == 60
\* self.retry(..., max_retries=3, ...) in the story tasks
StoryMaxRetries == 3
\* self.retry(..., max_retries=2, ...) in the LLM tasks
LLMMaxRetries == 2
\* CeleryConfig.result_expires
result_expires == 3600

None == <<>>
Some(v) == <<v>>

Min(a, b) == IF a <= b THEN a ELSE b
Max(a, b) == IF a >= b THEN a ELSE b

StoryOps == {"create_story", "update_story", "delete_story", "patch_story"}
LLMOps == {"generate_story", "analyze_story", "summarize_story", "improve_story"}
Ops == StoryOps \cup LLMOps

\* the id of the story that exists when the system starts, and an id no story ever has
FirstStoryId == 1
MissingStoryId == 999999

Exc(type, msg) == [kind |-> "exc", type |-> type, msg |-> msg]
Value(v) == [kind |-> "value", value |-> v]

----------------------------------------------------------------------------
(* Task Dispatcher: the submit wrappers of TaskService.                    *)
(* Each wrapper yields the (name, args) it hands to celery_app.send_task.  *)

create_story_async(story_data) ==
    [name |-> "stories.create_story", args |-> [story_data |-> story_data]]

update_story_async(story_id, story_data, retry_config) ==
    LET no_retry == /\ retry_config # None
                    /\ "retry" \in DOMAIN retry_config[1]
                    /\ retry_config[1]["retry"] = FALSE
    IN [name |-> "stories.update_story",
        args |-> [story_id |-> story_id, story_data |-> story_data, no_retry |-> no_retry]]

delete_story_async(story_id, retry_config) ==
    LET no_retry == /\ retry_config # None
                    /\ "retry" \in DOMAIN retry_config[1]
                    /\ retry_config[1]["retry"] = FALSE
    IN [name |-> "stories.delete_story",
        args |-> [story_id |-> story_id, no_retry |-> no_retry]]

\* a slip: the patch wrapper sends under the update task's name
patch_story_async_misnamed(story_id, patch_data) ==
    [name |-> "stories.update_story",
     args |-> [story_id |-> story_id, patch_data |-> patch_data]]

patch_story_async(story_id, patch_data) ==
    [name |-> "stories.patch_story",
     args |-> [story_id |-> story_id, patch_data |-> patch_data]]

generate_story_async(kwargs) == [name |-> "llm.generate_story", args |-> kwargs]

analyze_story_async(kwargs) == [name |-> "llm.analyze_story", args |-> kwargs]

summarize_story_async(kwargs) == [name |-> "llm.summarize_story", args |-> kwargs]

improve_story_async(kwargs) == [name |-> "llm.improve_story", args |-> kwargs]

\* a direct call of one wrapper: call is [op, ...the wrapper's parameters]
Wrapper(call) ==
    CASE call.op = "create_story" -> create_story_async(call.story_data)
      [] call.op = "update_story" ->
            update_story_async(call.story_id, call.story_data, call.retry_config)
      [] call.op = "delete_story" -> delete_story_async(call.story_id, call.retry_config)
      [] call.op = "patch_story" -> patch_story_async(call.story_id, call.patch_data)
      [] call.op = "generate_story" -> generate_story_async(call.kwargs)
      [] call.op = "analyze_story" -> analyze_story_async(call.kwargs)
      [] call.op = "summarize_story" -> summarize_story_async(call.kwargs)
      [] call.op = "improve_story" -> improve_story_async(call.kwargs)

----------------------------------------------------------------------------
(* API surface: the mutating and LLM endpoints (app/routers).              *)
(* A handler yields either the response it answers before any dispatch     *)
(* (reject), or the wrapper call it makes with the TaskResponse it answers *)
(* on success and the prefix of its 500 detail on failure.                 *)

Dispatching(call, message, estimated_time, prefix) ==
    [reject |-> None, call |-> call, message |-> message,
     estimated_time |-> estimated_time, prefix |-> prefix]

Rejecting(code, detail) ==
    [reject |-> Some([code |-> code, detail |-> detail])]

\* POST /stories/ ; story.model_dump() carries every field of StoryCreate
create_story(req) ==
    Dispatching([op |-> "create_story", story_data |-> req.body],
                "Story creation task submitted successfully", 30,
                "Failed to submit story creation task: ")

\* PUT /stories/{story_id} ; model_dump(exclude_unset=True) keeps the fields sent
update_story(req) ==
    Dispatching([op |-> "update_story", story_id |-> req.story_id,
                 story_data |-> req.body, retry_config |-> None],
                "Story update task submitted successfully", 20,
                "Failed to submit story update task: ")

\* DELETE /stories/{story_id}
delete_story(req) ==
    Dispatching([op |-> "delete_story", story_id |-> req.story_id,
                 retry_config |-> None],
                "Story deletion task submitted successfully", 15,
                "Failed to submit story deletion task: ")

\* PATCH /stories/{story_id}/publish
publish_story(req) ==
    Dispatching([op |-> "patch_story", story_id |-> req.story_id,
                 patch_data |-> [is_published |-> TRUE]],
                "Story publish task submitted successfully", 10,
                "Failed to submit story publish task: ")

\* a slip: the unpublish handler was copied from the publish handler as it is
unpublish_story_publishing(req) ==
    Dispatching([op |-> "patch_story", story_id |-> req.story_id,
                 patch_data |-> [is_published |-> TRUE]],
                "Story unpublish task submitted successfully", 10,
                "Failed to submit story unpublish task: ")

\* PATCH /stories/{story_id}/unpublish
unpublish_story(req) ==
    Dispatching([op |-> "patch_story", story_id |-> req.story_id,
                 patch_data |-> [is_published |-> FALSE]],
                "Story unpublish task submitted successfully", 10,
                "Failed to submit story unpublish task: ")

\* POST /api/v1/llm/generate ; the estimate is looked up by length, 120 otherwise
generate_story(req) ==
    Dispatching([op |-> "generate_story", kwargs |-> req.body],
                "Story generation task submitted successfully",
                CASE req.body.length = "short" -> 60
                  [] req.body.length = "medium" -> 120
                  [] req.body.length = "long" -> 300
                  [] OTHER -> 120,
                "Story generation task submission failed: ")

\* a slip: the analyze handler dispatches without looking at analysis_type
analyze_story_unvalidated(req) ==
    Dispatching([op |-> "analyze_story", kwargs |-> req.body],
                "Story analysis task submitted successfully", 45,
                "Story analysis task submission failed: ")

\* POST /api/v1/llm/analyze
analyze_story(req) ==
    IF req.body.analysis_type \notin {"sentiment", "genre", "full"}
    THEN Rejecting(400, "Invalid analysis type")
    ELSE Dispatching([op |-> "analyze_story", kwargs |-> req.body],
                     "Story analysis task submitted successfully", 45,
                     "Story analysis task submission failed: ")

\* POST /api/v1/llm/summarize
summarize_story(req) ==
    IF req.body.summary_length \notin {"brief", "detailed"}
    THEN Rejecting(400, "Invalid summary length")
    ELSE Dispatching([op |-> "summarize_story", kwargs |-> req.body],
                     "Story summarization task submitted successfully", 30,
                     "Story summarization task submission failed: ")

\* POST /api/v1/llm/improve
improve_story(req) ==
    IF req.body.improvement_type \notin {"general", "grammar", "style"}
    THEN Rejecting(400, "Invalid improvement type")
    ELSE Dispatching([op |-> "improve_story", kwargs |-> req.body],
                     "Story improvement task submitted successfully", 90,
                     "Story improvement task submission failed: ")

\* StoryCreate(**story_data): title, content, author required and non-empty
ValidStoryCreate(d) ==
    /\ {"title", "content", "author"} \subseteq DOMAIN d
    /\ d.title # "" /\ d.content # "" /\ d.author # ""

\* StoryUpdate(**story_data): every field optional, a given string non-empty
ValidStoryUpdate(d) ==
    \A f \in DOMAIN d \cap {"title", "content", "author"} : d[f] # ""

\* the request models FastAPI validates a body against before it calls the handler;
\* a text is modelled by its length
StoryGenerationRequest(body) == body.prompt >= 10 /\ body.prompt <= 2000
StoryAnalysisRequest(body) == body.content >= 50 /\ body.content <= 10000
StorySummaryRequest(body) == body.content >= 100 /\ body.content <= 20000
StoryImprovementRequest(body) == body.content >= 50 /\ body.content <= 15000

RequestValid(req) ==
    CASE req.endpoint = "POST /stories/" -> ValidStoryCreate(req.body)
      [] req.endpoint = "PUT /stories/{id}" -> ValidStoryUpdate(req.body)
      [] req.endpoint = "POST /llm/generate" -> StoryGenerationRequest(req.body)
      [] req.endpoint = "POST /llm/analyze" -> StoryAnalysisRequest(req.body)
      [] req.endpoint = "POST /llm/summarize" -> StorySummaryRequest(req.body)
      [] req.endpoint = "POST /llm/improve" -> StoryImprovementRequest(req.body)
      [] OTHER -> TRUE

Route(req) ==
    CASE req.endpoint = "POST /stories/" -> create_story(req)
      [] req.endpoint = "PUT /stories/{id}" -> update_story(req)
      [] req.endpoint = "DELETE /stories/{id}" -> delete_story(req)
      [] req.endpoint = "PATCH /stories/{id}/publish" -> publish_story(req)
      [] req.endpoint = "PATCH /stories/{id}/unpublish" -> unpublish_story(req)
      [] req.endpoint = "POST /llm/generate" -> generate_story(req)
      [] req.endpoint = "POST /llm/analyze" -> analyze_story(req)
      [] req.endpoint = "POST /llm/summarize" -> summarize_story(req)
      [] req.endpoint = "POST /llm/improve" -> improve_story(req)

\* FastAPI: a body that fails its request model is answered 422, the handler not called
Handler(req) ==
    IF RequestValid(req) THEN Route(req) ELSE Rejecting(422, "Unprocessable Entity")

\* what the broker client raises when the publish fails
BrokerError == "broker unreachable"

\* the handler's answer once the wrapper returned task_id
TaskResponse(h, task_id) ==
    [code |-> 200, task_id |-> task_id, status |-> "PENDING",
     message |-> h.message, estimated_time |-> h.estimated_time]

\* the handler's answer once the wrapper raised e
SubmitFailure(h, e) == [code |-> 500, detail |-> <<h.prefix, e>>]

----------------------------------------------------------------------------
(* Inputs. *)

\* requests as the clients send them; query holds the query parameters
HttpRequests ==
    {[endpoint |-> "POST /stories/",
      body |-> [title |-> t, content |-> "C", author |-> "A",
                genre |-> None, is_published |-> FALSE]] : t \in {"T", ""}}
    \cup {[endpoint |-> "PUT /stories/{id}", story_id |-> FirstStoryId, query |-> <<>>,
           body |-> [title |-> t]] : t \in {"T2", ""}}
    \cup {[endpoint |-> "PUT /stories/{id}", story_id |-> MissingStoryId, query |-> q,
           body |-> [title |-> "T2"]] : q \in {<<>>, [no_retry |-> "true"]}}
    \cup {[endpoint |-> "DELETE /stories/{id}", story_id |-> FirstStoryId, query |-> <<>>]}
    \cup {[endpoint |-> "DELETE /stories/{id}", story_id |-> MissingStoryId, query |-> q]
            : q \in {<<>>, [no_retry |-> "true"]}}
    \cup {[endpoint |-> e, story_id |-> FirstStoryId]
            : e \in {"PATCH /stories/{id}/publish", "PATCH /stories/{id}/unpublish"}}
    \cup {[endpoint |-> "POST /llm/generate",
           body |-> [prompt |-> 24, genre |-> "fiction",
                     length |-> "medium", style |-> "engaging"]]}
    \cup {[endpoint |-> "POST /llm/analyze", body |-> [content |-> 200, analysis_type |-> t]]
            : t \in {"full", "invalid_type"}}
    \cup {[endpoint |-> "POST /llm/analyze",
           body |-> [content |-> 18, analysis_type |-> "invalid_type"]]}
    \cup {[endpoint |-> "POST /llm/summarize",
           body |-> [content |-> 200, summary_length |-> l, focus |-> "main plot and characters"]]
            : l \in {"brief", "long"}}
    \cup {[endpoint |-> "POST /llm/improve",
           body |-> [content |-> 200, improvement_type |-> t,
                     focus_area |-> "overall quality", target_audience |-> "general readers"]]
            : t \in {"general", "rewrite"}}

RetryConfigs == {None, Some([retry |-> FALSE]), Some([max_retries |-> 0, countdown |-> 1])}

\* calls an internal caller makes on the wrappers, with any JSON-compatible parameters
DirectCalls ==
    {[op |-> "create_story", story_data |-> d]
        : d \in {[title |-> "T", content |-> "C", author |-> "A"],
                 [title |-> "T", content |-> "C", author |-> "A", is_published |-> TRUE],
                 [title |-> "", content |-> "C", author |-> "A"]}}
    \cup {[op |-> "update_story", story_id |-> i, story_data |-> [title |-> "T2"],
           retry_config |-> rc] : i \in {FirstStoryId, MissingStoryId}, rc \in RetryConfigs}
    \cup {[op |-> "delete_story", story_id |-> i, retry_config |-> rc]
            : i \in {FirstStoryId, MissingStoryId}, rc \in RetryConfigs}
    \cup {[op |-> "patch_story", story_id |-> i, patch_data |-> [is_published |-> TRUE]]
            : i \in {FirstStoryId, MissingStoryId}}
    \cup {[op |-> "patch_story", story_id |-> FirstStoryId, patch_data |-> [title |-> ""]]}
    \cup {[op |-> "update_story", story_id |-> FirstStoryId, story_data |-> [title |-> t],
           retry_config |-> None] : t \in {"T0", "T3"}}
    \cup {[op |-> "generate_story", kwargs |-> [prompt |-> 24]]}
    \cup {[op |-> "analyze_story", kwargs |-> [content |-> 200, analysis_type |-> t]]
            : t \in {"sentiment", "invalid_type"}}
    \cup {[op |-> "summarize_story", kwargs |-> [content |-> 200, summary_length |-> l]]
            : l \in {"detailed", "long"}}
    \cup {[op |-> "improve_story", kwargs |-> [content |-> 200, improvement_type |-> t]]
            : t \in {"grammar", "rewrite"}}

----------------------------------------------------------------------------
(* State. *)

VARIABLES
    nextId,       \* the next task id the broker client generates
    calls,        \* calls[i]: the i-th API call, with what it answered
    broker,       \* the messages on the queue
    meta,         \* result backend: task id -> [status, result, traceback]
    exec,         \* exec[w]: what worker slot w is executing
    stories,      \* the stories table: id -> row
    nextStoryId,  \* the table's autoincrement
    dbClock,      \* the database's clock (func.now())
    revoked,      \* the task ids the workers hold as revoked
    stats,        \* stats[id]: how often the body of task id ran, raised, ...
    losses,       \* the worker losses this behaviour can still see
    scope,        \* the requests the clients of this behaviour send
    budget,       \* the number of API calls of this behaviour
    waiter,       \* the request blocked in GET /tasks/{task_id}/result, if any
    proc          \* proc[w]: the state of the worker process behind slot w

vars == <<nextId, calls, broker, meta, exec, stories, nextStoryId, dbClock,
          revoked, stats, losses, scope, budget, waiter, proc>>

TaskIds == 1..budget
Workers == 1..NumWorkers

Idle == [pc |-> "idle"]

\* per task: runs of the body, attempts that raised, get_llm_service() calls, model
\* calls, and the first and the latest exception an attempt raised
NoStats == [runs |-> 0, raised |-> 0, acquired |-> 0, called |-> 0,
            first |-> None, last |-> None]

\* LLMService(): a service instance as its constructor leaves it
LLMService == [requests_count |-> 0, errors_count |-> 0]

\* a worker process after its start: no session open, and the llm_service the
\* module created at import
NoProc == [open |-> 0, llm_service |-> LLMService]

InitialStory ==
    [id |-> FirstStoryId, title |-> "T0", content |-> "C0", author |-> "A0",
     genre |-> None, is_published |-> FALSE, created_at |-> 0, updated_at |-> None]

NoWaiter == [pc |-> "none"]

\* a behaviour's clients send one kind of request (any number of times)
Scopes == {{x} : x \in DirectCalls \cup HttpRequests}

\* two kinds of request on the first story: a delete and another mutation or a create
RaceScopes ==
    {{[op |-> "delete_story", story_id |-> FirstStoryId, retry_config |-> None], x}
        : x \in {[op |-> "update_story", story_id |-> FirstStoryId,
                   story_data |-> [title |-> "T2"], retry_config |-> None],
                  [op |-> "patch_story", story_id |-> FirstStoryId,
                   patch_data |-> [is_published |-> TRUE]],
                  [op |-> "create_story",
                   story_data |-> [title |-> "T", content |-> "C", author |-> "A"]]}}

\* two updates of the title of the first story to different values: two new
\* values, or a new value and the value the story already has
UpdateRaceScopes ==
    {{[op |-> "update_story", story_id |-> FirstStoryId, story_data |-> [title |-> t],
       retry_config |-> None] : t \in pair} : pair \in {{"T2", "T3"}, {"T0", "T2"}}}

\* a client that publishes and unpublishes the first story
RoundTripScopes ==
    {{[endpoint |-> e, story_id |-> FirstStoryId]
        : e \in {"PATCH /stories/{id}/publish", "PATCH /stories/{id}/unpublish"}}}

Start(n, scopes, k) ==
    /\ budget = n
    /\ scope \in scopes
    /\ nextId = 1
    /\ calls = <<>>
    /\ broker = {}
    /\ meta = <<>>
    /\ exec = [w \in Workers |-> Idle]
    /\ stories = (FirstStoryId :> InitialStory)
    /\ nextStoryId = FirstStoryId + 1
    /\ dbClock = 0
    /\ revoked = {}
    /\ stats = [i \in 1..n |-> NoStats]
    /\ losses = k
    /\ waiter = NoWaiter
    /\ proc = [w \in Workers |-> NoProc]

Init == Start(MaxTasks, Scopes, 0)
InitPair == Start(PairTasks, Scopes, 0)
InitRace == Start(PairTasks, RaceScopes, 0)
InitLossy == Start(MaxTasks, Scopes, MaxLost)
InitRoundTrip == Start(PairTasks, RoundTripScopes, 0)
InitUpdateRace == Start(PairTasks, UpdateRaceScopes, 0)

----------------------------------------------------------------------------
(* Submission. *)

\* celery_app.send_task(name, args): one message under a fresh id
send_task(id, w) ==
    [id |-> id, name |-> w.name, args |-> w.args, retries |-> 0, eta |-> 0]

\* an internal caller calls a wrapper of TaskService directly
DirectSubmit(call, publishOk) ==
    /\ nextId <= budget /\ call \in scope
    /\ nextId' = nextId + 1
    /\ IF publishOk
       THEN /\ broker' = broker \cup {send_task(nextId, Wrapper(call))}
            /\ calls' = Append(calls, [via |-> "direct", call |-> call,
                                       returned |-> Some(nextId), raised |-> None])
       ELSE /\ broker' = broker
            /\ calls' = Append(calls, [via |-> "direct", call |-> call,
                                       returned |-> None, raised |-> Some(BrokerError)])
    /\ UNCHANGED <<meta, exec, stories, nextStoryId, dbClock, revoked, stats, losses, scope, budget, waiter, proc>>

\* a slip: the handler swallows the wrapper's exception
Respond_swallowing(h, task_id, publishOk) == TaskResponse(h, task_id)

\* what the handler h answers when its wrapper call publishes or fails to
Respond(h, task_id, publishOk) ==
    IF publishOk THEN TaskResponse(h, task_id) ELSE SubmitFailure(h, BrokerError)

\* an HTTP request to a mutating or LLM endpoint
HttpSubmit(req, publishOk) ==
    LET h == Handler(req) IN
    /\ nextId <= budget /\ req \in scope
    /\ nextId' = nextId + 1
    /\ IF h.reject # None
       THEN /\ broker' = broker
            /\ calls' = Append(calls, [via |-> "http", req |-> req, sent |-> FALSE,
                                       resp |-> h.reject[1]])
       ELSE /\ broker' = IF publishOk
                         THEN broker \cup {send_task(nextId, Wrapper(h.call))}
                         ELSE broker
            /\ calls' = Append(calls, [via |-> "http", req |-> req, sent |-> publishOk,
                                       resp |-> Respond(h, nextId, publishOk)])
    /\ UNCHANGED <<meta, exec, stories, nextStoryId, dbClock, revoked, stats, losses, scope, budget, waiter, proc>>

----------------------------------------------------------------------------
(* Result backend. *)

\* store a state for task id; every store restarts the retention window
Store(id, status, result, traceback) ==
    meta' = [i \in DOMAIN meta \cup {id} |->
                IF i = id
                THEN [status |-> status, result |-> result, traceback |-> traceback]
                ELSE meta[i]]

TracebackOf(exc) == Some(<<"Traceback", exc.type, exc.msg>>)

mark_as_done(id, value) == Store(id, "SUCCESS", Some(Value(value)), None)
\* a slip: the failure records the error of the task's first attempt
mark_as_failure_first(id, exc) ==
    LET kept == IF stats[id].first = None THEN exc ELSE stats[id].first[1]
    IN Store(id, "FAILURE", Some(kept), TracebackOf(kept))

\* the task failed: self.retry(exc=exc) with the retries used up, or raise exc
mark_as_failure(id, exc) == Store(id, "FAILURE", Some(exc), TracebackOf(exc))
mark_as_retry(id, exc) == Store(id, "RETRY", Some(exc), TracebackOf(exc))
mark_as_revoked(id) ==
    Store(id, "REVOKED", Some(Exc("TaskRevokedError", "revoked")), None)

----------------------------------------------------------------------------
(* Task Registry: the task bodies, by registered name. *)

StoryTaskNames == {"stories.create_story", "stories.update_story",
                   "stories.delete_story", "stories.patch_story"}
LLMTaskNames == {"llm.generate_story", "llm.analyze_story",
                 "llm.summarize_story", "llm.improve_story"}

\* a slip: the LLM bodies pass the story bodies' max_retries
MaxRetriesOf_same(name) == StoryMaxRetries

\* max_retries each body passes to self.retry
MaxRetriesOf(name) == IF name \in LLMTaskNames THEN LLMMaxRetries ELSE StoryMaxRetries

\* a slip: the bodies ignore their no_retry parameter
NoRetryOf_ignored(m) == FALSE

\* the no_retry parameter of update_story_task / delete_story_task (default False)
NoRetryOf(m) ==
    /\ m.name \in {"stories.update_story", "stories.delete_story"}
    /\ m.args.no_retry

Get(d, k, default) == IF k \in DOMAIN d THEN d[k] ELSE default

StoryUpdateFields == {"title", "content", "author", "genre", "is_published"}
StoryColumns == {"id", "title", "content", "author", "genre", "is_published",
                 "created_at", "updated_at"}

Restrict(d, keys) == [k \in DOMAIN d \cap keys |-> d[k]]

\* isoformat() of a timestamp
Iso(t) == <<"iso", t>>

\* the dictionary the create, update and patch bodies return
Snapshot(row) ==
    [id |-> row.id, title |-> row.title, content |-> row.content,
     author |-> row.author, genre |-> row.genre, is_published |-> row.is_published,
     created_at |-> Some(Iso(row.created_at)),
     updated_at |-> IF row.updated_at = None THEN None ELSE Some(Iso(row.updated_at[1]))]

\* the first part of a story body: open the session, look the story up, validate,
\* set the attributes.  Yields the exception raised, or the unit of work to commit.
Raise(exc) == [raised |-> Some(exc)]
UnitOfWork(loaded, pending) == [raised |-> None, loaded |-> loaded, pending |-> pending]

NotFound(story_id) == Exc("ValueError", <<"Story not found", story_id>>)

\* a slip: the create body stores every story unpublished
create_story_task_unpublished(args) ==
    IF ~ValidStoryCreate(args.story_data)
    THEN Raise(Exc("ValidationError", "StoryCreate"))
    ELSE UnitOfWork(None,
              [title |-> args.story_data.title, content |-> args.story_data.content,
               author |-> args.story_data.author,
               genre |-> Get(args.story_data, "genre", None),
               is_published |-> FALSE])

create_story_task(args) ==
    IF ~ValidStoryCreate(args.story_data)
    THEN Raise(Exc("ValidationError", "StoryCreate"))
    ELSE UnitOfWork(None,
              [title |-> args.story_data.title, content |-> args.story_data.content,
               author |-> args.story_data.author,
               genre |-> Get(args.story_data, "genre", None),
               is_published |-> Get(args.story_data, "is_published", FALSE)])

\* a slip: the update body also publishes the story it touches
update_story_task_publishing(args) ==
    IF args.story_id \notin DOMAIN stories THEN Raise(NotFound(args.story_id))
    ELSE IF ~ValidStoryUpdate(args.story_data)
    THEN Raise(Exc("ValidationError", "StoryUpdate"))
    ELSE UnitOfWork(Some(stories[args.story_id]),
                    Restrict(args.story_data, StoryUpdateFields) @@ [is_published |-> TRUE])

update_story_task(args) ==
    IF args.story_id \notin DOMAIN stories THEN Raise(NotFound(args.story_id))
    ELSE IF ~ValidStoryUpdate(args.story_data)
    THEN Raise(Exc("ValidationError", "StoryUpdate"))
    ELSE UnitOfWork(Some(stories[args.story_id]), Restrict(args.story_data, StoryUpdateFields))

delete_story_task(args) ==
    IF args.story_id \notin DOMAIN stories THEN Raise(NotFound(args.story_id))
    ELSE UnitOfWork(Some(stories[args.story_id]), <<>>)

patch_story_task(args) ==
    IF args.story_id \notin DOMAIN stories THEN Raise(NotFound(args.story_id))
    ELSE UnitOfWork(Some(stories[args.story_id]), Restrict(args.patch_data, StoryColumns))

StoryBody(m) ==
    CASE m.name = "stories.create_story" -> create_story_task(m.args)
      [] m.name = "stories.update_story" -> update_story_task(m.args)
      [] m.name = "stories.delete_story" -> delete_story_task(m.args)
      [] m.name = "stories.patch_story" -> patch_story_task(m.args)

\* a slip: the analyze body does not validate analysis_type
analyze_story_task_unchecked(kwargs) == TRUE

\* the parameter validation at the head of the LLM bodies (generate has none)
analyze_story_task(kwargs) ==
    Get(kwargs, "analysis_type", "full") \in {"sentiment", "genre", "full"}
summarize_story_task(kwargs) ==
    Get(kwargs, "summary_length", "brief") \in {"brief", "detailed"}
improve_story_task(kwargs) ==
    Get(kwargs, "improvement_type", "general") \in {"general", "grammar", "style"}
generate_story_task(kwargs) == TRUE

LLMParamsValid(m) ==
    CASE m.name = "llm.generate_story" -> generate_story_task(m.args)
      [] m.name = "llm.analyze_story" -> analyze_story_task(m.args)
      [] m.name = "llm.summarize_story" -> summarize_story_task(m.args)
      [] m.name = "llm.improve_story" -> improve_story_task(m.args)

----------------------------------------------------------------------------
(* Task Executor: the worker. *)

Busy(w) == exec[w].pc # "idle"
\* the body of a task is executing in slot w
Running(w) == exec[w].pc \notin {"idle", "ack"}
IsStory(w) == exec[w].msg.name \in StoryTaskNames
IsLLM(w) == exec[w].msg.name \in LLMTaskNames

Bump(id, field) == [stats EXCEPT ![id][field] = @ + 1]

\* a slip: once the retries are used up the task is left in RETRY, nothing published
retry_stuck(m, exc, max_retries) ==
    IF m.retries + 1 > max_retries
    THEN [status |-> "RETRY", requeue |-> {}]
    ELSE [status |-> "RETRY",
          requeue |-> {[m EXCEPT !.retries = @ + 1, !.eta = RetryCountdown]}]

\* self.retry(countdown=60, max_retries=n, exc=exc) on message m: the message it
\* publishes and the state it stores, or the failure once the retries are used up
retry(m, exc, max_retries) ==
    IF m.retries + 1 > max_retries
    THEN [status |-> "FAILURE", requeue |-> {}]
    ELSE [status |-> "RETRY",
          requeue |-> {[m EXCEPT !.retries = @ + 1, !.eta = RetryCountdown]}]

\* a slip: a not-found ValueError is treated as terminal and never retried
OnException_terminal(m, exc) ==
    IF NoRetryOf(m) \/ exc.type = "ValueError"
    THEN [status |-> "FAILURE", requeue |-> {}]
    ELSE retry(m, exc, MaxRetriesOf(m.name))

\* the except clause of a task body: retry, or re-raise when no_retry is set
OnException(m, exc) ==
    IF NoRetryOf(m)
    THEN [status |-> "FAILURE", requeue |-> {}]
    ELSE retry(m, exc, MaxRetriesOf(m.name))

\* SessionLocal() in get_db: the process holds one more open session
SessionLocal(p) == [p EXCEPT !.open = @ + 1]

\* a slip: the body has no finally clause, the session stays open
db_close_forgotten(p) == p

\* db.close() in the finally clause of a story body
db_close(p) == [p EXCEPT !.open = @ - 1]

\* LLMService._update_usage_stats
update_usage_stats(svc, success) ==
    [requests_count |-> svc.requests_count + 1,
     errors_count |-> svc.errors_count + (IF success THEN 0 ELSE 1)]

\* get_llm_service() called in worker process w: the module's global instance
get_llm_service(w) == proc[w].llm_service

\* the body has ended and its outcome is stored; the message is acknowledged
\* next (task_acks_late).  The acknowledgement is a step of its own only where
\* a worker loss can still fall before it: nothing else tells the two apart.
Finished(w) == IF losses > 0 THEN [pc |-> "ack", msg |-> exec[w].msg] ELSE Idle

\* the body on worker w raised exc
Raises(w, exc, st) ==
    LET m == exec[w].msg
        o == OnException(m, exc)
    IN /\ broker' = broker \cup o.requeue
       /\ IF o.status = "RETRY" THEN mark_as_retry(m.id, exc)
                                ELSE mark_as_failure(m.id, exc)
       /\ exec' = [exec EXCEPT ![w] = Finished(w)]
       /\ stats' = [st EXCEPT ![m.id].raised = @ + 1,
                              ![m.id].first = IF @ = None THEN Some(exc) ELSE @,
                              ![m.id].last = Some(exc)]

\* the body on worker w returned value
Returns(w, value) ==
    /\ mark_as_done(exec[w].msg.id, value)
    /\ exec' = [exec EXCEPT ![w] = Finished(w)]
    /\ UNCHANGED <<broker, stats>>

\* the first free pool slot
FreeSlot(w) == ~Busy(w) /\ \A v \in Workers : v < w => Busy(v)

\* a worker takes a due message and starts the body (the message stays unacknowledged)
StartAttempt(w, m) ==
    /\ m \in broker /\ m.eta = 0 /\ m.id \notin revoked
    /\ FreeSlot(w)
    /\ broker' = broker \ {m}
    /\ exec' = [exec EXCEPT ![w] = [pc |-> "begin", msg |-> m, session |-> FALSE,
                                    loaded |-> None, pending |-> <<>>]]
    /\ stats' = Bump(m.id, "runs")
    /\ UNCHANGED <<nextId, calls, meta, stories, nextStoryId, dbClock, revoked, losses, scope, budget, waiter, proc>>

\* a worker receives a message whose id it holds as revoked: it is dropped
DiscardRevoked(m) ==
    /\ m \in broker /\ m.id \in revoked
    /\ broker' = broker \ {m}
    /\ mark_as_revoked(m.id)
    /\ UNCHANGED <<nextId, calls, exec, stories, nextStoryId, dbClock, revoked, stats, losses, scope, budget, waiter, proc>>

\* a story body up to its commit: session, lookup, validation, attribute changes
BeginStory(w) ==
    /\ exec[w].pc = "begin" /\ IsStory(w)
    /\ LET r == StoryBody(exec[w].msg) IN
       IF r.raised # None
       THEN /\ Raises(w, r.raised[1], stats)
            /\ proc' = [proc EXCEPT ![w] = db_close(SessionLocal(@))]
       ELSE /\ exec' = [exec EXCEPT ![w].pc = "open", ![w].session = TRUE,
                                    ![w].loaded = r.loaded, ![w].pending = r.pending]
            /\ proc' = [proc EXCEPT ![w] = SessionLocal(@)]
            /\ UNCHANGED <<broker, meta, stats>>
    /\ UNCHANGED <<nextId, calls, stories, nextStoryId, dbClock, revoked, losses, scope, budget, waiter>>

\* an LLM body up to its model call: parameter validation, then get_llm_service()
BeginLLM(w) ==
    /\ exec[w].pc = "begin" /\ IsLLM(w)
    /\ IF ~LLMParamsValid(exec[w].msg)
       THEN Raises(w, Exc("ValueError", "invalid parameter"), stats)
       ELSE /\ exec' = [exec EXCEPT ![w].pc = "open"]
            /\ stats' = Bump(exec[w].msg.id, "acquired")
            /\ UNCHANGED <<broker, meta>>
    /\ UNCHANGED <<nextId, calls, stories, nextStoryId, dbClock, revoked, losses, scope, budget, waiter, proc>>

\* the columns of the unit of work that differ from the row as it was loaded
Changed(loaded, pending) == {f \in DOMAIN pending : pending[f] # loaded[f]}

\* a slip: the flush writes the row back whether or not it still exists
flush_update_upsert(row, pending, now) ==
    [stale |-> FALSE,
     table |-> (row.id :> [c \in StoryColumns |->
                             IF c \in Changed(row, pending) THEN pending[c]
                             ELSE IF c = "updated_at" THEN Some(now)
                             ELSE row[c]]) @@ stories]

\* a slip: the flush checks that the row is still as it was loaded (a version check)
flush_update_versioned(row, pending, now) ==
    IF row.id \notin DOMAIN stories \/ stories[row.id] # row
    THEN [stale |-> TRUE, table |-> stories]
    ELSE [stale |-> FALSE,
          table |-> [stories EXCEPT ![row.id] =
                       [c \in StoryColumns |->
                          IF c \in Changed(row, pending) THEN pending[c]
                          ELSE IF c = "updated_at" THEN Some(now)
                          ELSE stories[row.id][c]]]]

\* the UPDATE a flush emits for the changed columns of a loaded row (with
\* updated_at's onupdate); it is stale when the row is no longer there
flush_update(row, pending, now) ==
    IF row.id \notin DOMAIN stories
    THEN [stale |-> TRUE, table |-> stories]
    ELSE [stale |-> FALSE,
          table |-> [stories EXCEPT ![row.id] =
                       [c \in StoryColumns |->
                          IF c \in Changed(row, pending) THEN pending[c]
                          ELSE IF c = "updated_at" THEN Some(now)
                          ELSE stories[row.id][c]]]]

\* the primary key an INSERT assigns: MySQL's AUTO_INCREMENT counter never goes
\* back; SQLite (the default DATABASE_URL) takes the largest id in the table plus
\* one, which hands the id of a deleted last row out again
NextRowIds ==
    {nextStoryId,
     IF DOMAIN stories = {} THEN 1
     ELSE 1 + CHOOSE k \in DOMAIN stories : \A j \in DOMAIN stories : j <= k}

\* db.commit() of a story body; fails when the database does (dbFail)
Commit(w, dbFail) ==
    /\ exec[w].pc = "open" /\ IsStory(w)
    /\ LET m == exec[w].msg
           pending == exec[w].pending
           now == dbClock + 1
       IN
       IF dbFail
       THEN /\ Raises(w, Exc("OperationalError", "database unavailable"), stats)
            /\ proc' = [proc EXCEPT ![w] = db_close(@)]
            /\ UNCHANGED <<stories, nextStoryId, dbClock>>
       ELSE IF m.name = "stories.create_story"
       THEN \E id \in NextRowIds :
            /\ stories' = (id :>
                             [id |-> id, title |-> pending.title,
                              content |-> pending.content, author |-> pending.author,
                              genre |-> pending.genre,
                              is_published |-> pending.is_published,
                              created_at |-> now, updated_at |-> None]) @@ stories
            /\ nextStoryId' = Max(nextStoryId, id + 1)
            /\ dbClock' = now
            /\ exec' = [exec EXCEPT ![w].pc = "committed",
                                    ![w].loaded = Some(stories'[id])]
            /\ UNCHANGED <<broker, meta, stats, proc>>
       ELSE LET row == exec[w].loaded[1]
                gone == row.id \notin DOMAIN stories
            IN
            IF m.name = "stories.delete_story"
            THEN /\ stories' = [i \in DOMAIN stories \ {row.id} |-> stories[i]]
                 /\ dbClock' = IF gone THEN dbClock ELSE now
                 /\ exec' = [exec EXCEPT ![w].pc = "committed"]
                 /\ UNCHANGED <<broker, meta, stats, nextStoryId, proc>>
            ELSE IF Changed(row, pending) = {}
            THEN /\ exec' = [exec EXCEPT ![w].pc = "committed"]
                 /\ UNCHANGED <<broker, meta, stats, stories, nextStoryId, dbClock, proc>>
            ELSE IF flush_update(row, pending, now).stale
            THEN /\ Raises(w, Exc("StaleDataError", "UPDATE matched 0 rows"), stats)
                 /\ proc' = [proc EXCEPT ![w] = db_close(@)]
                 /\ UNCHANGED <<stories, nextStoryId, dbClock>>
            ELSE /\ stories' = flush_update(row, pending, now).table
                 /\ dbClock' = now
                 /\ exec' = [exec EXCEPT ![w].pc = "committed"]
                 /\ UNCHANGED <<broker, meta, stats, nextStoryId, proc>>
    /\ UNCHANGED <<nextId, calls, revoked, losses, scope, budget, waiter>>

\* after the commit: db.refresh(), the returned dictionary, db.close()
Return(w, dbFail) ==
    /\ exec[w].pc = "committed" /\ IsStory(w)
    /\ LET m == exec[w].msg
           row == exec[w].loaded[1]
       IN
       IF m.name = "stories.delete_story"
       THEN Returns(w, [id |-> row.id, title |-> row.title, deleted |-> TRUE])
       ELSE IF dbFail
       THEN Raises(w, Exc("OperationalError", "database unavailable"), stats)
       ELSE IF row.id \notin DOMAIN stories
       THEN Raises(w, Exc("InvalidRequestError", "could not refresh instance"), stats)
       ELSE Returns(w, Snapshot(stories[row.id]))
    /\ proc' = [proc EXCEPT ![w] = db_close(@)]
    /\ UNCHANGED <<nextId, calls, stories, nextStoryId, dbClock, revoked, losses, scope, budget, waiter>>

\* the model call of an LLM body and its return; fails when the provider does
ModelCall(w, llmFail) ==
    /\ exec[w].pc = "open" /\ IsLLM(w)
    /\ LET m == exec[w].msg
           st == Bump(m.id, "called")
       IN
       IF llmFail
       THEN Raises(w, Exc("Exception", "Service temporarily unavailable"), st)
       ELSE /\ mark_as_done(m.id, [task |-> m.name, success |-> TRUE])
            /\ exec' = [exec EXCEPT ![w] = Finished(w)]
            /\ stats' = st
            /\ UNCHANGED broker
    /\ proc' = [proc EXCEPT ![w].llm_service = update_usage_stats(@, ~llmFail)]
    /\ UNCHANGED <<nextId, calls, stories, nextStoryId, dbClock, revoked, losses, scope, budget, waiter>>

\* a slip: terminating a revoked task also undoes what the task committed
Terminate_rollback(w) ==
    /\ Running(w) /\ exec[w].msg.id \in revoked
    /\ mark_as_revoked(exec[w].msg.id)
    /\ exec' = [exec EXCEPT ![w] = Idle]
    /\ proc' = [proc EXCEPT ![w] = NoProc]
    /\ stories' = (FirstStoryId :> InitialStory)
    /\ UNCHANGED <<nextId, calls, broker, nextStoryId, dbClock, revoked, stats, losses, scope, budget, waiter>>

\* the worker terminates the process executing a revoked task (terminate=True);
\* the pool replaces the process
Terminate(w) ==
    /\ Running(w) /\ exec[w].msg.id \in revoked
    /\ mark_as_revoked(exec[w].msg.id)
    /\ exec' = [exec EXCEPT ![w] = Idle]
    /\ proc' = [proc EXCEPT ![w] = NoProc]
    /\ UNCHANGED <<nextId, calls, broker, stories, nextStoryId, dbClock, revoked, stats, losses, scope, budget, waiter>>

\* the worker process dies: the unacknowledged message is requeued
\* (task_acks_late with task_reject_on_worker_lost)
WorkerLost(w) ==
    /\ Busy(w) /\ losses > 0
    /\ losses' = losses - 1
    /\ broker' = broker \cup {exec[w].msg}
    /\ exec' = [exec EXCEPT ![w] = Idle]
    /\ proc' = [proc EXCEPT ![w] = NoProc]
    /\ UNCHANGED <<nextId, calls, meta, stories, nextStoryId, dbClock, revoked, stats, scope, budget, waiter>>

\* the worker acknowledges the message once the body has ended (task_acks_late)
Ack(w) ==
    /\ exec[w].pc = "ack"
    /\ exec' = [exec EXCEPT ![w] = Idle]
    /\ UNCHANGED <<nextId, calls, broker, meta, stories, nextStoryId, dbClock, revoked, stats, losses, scope, budget, waiter, proc>>

----------------------------------------------------------------------------
(* Task Observatory. *)

\* AsyncResult(task_id): the stored meta, PENDING with nothing else when none is stored
AsyncResult(task_id) ==
    IF task_id \in DOMAIN meta THEN meta[task_id]
    ELSE [status |-> "PENDING", result |-> None, traceback |-> None]

READY_STATES == {"SUCCESS", "FAILURE", "REVOKED"}

\* a slip: the result is handed out whether or not the task is ready
get_task_status_unguarded(task_id) ==
    LET r == AsyncResult(task_id) IN
    [task_id |-> task_id, status |-> r.status, result |-> r.result, info |-> r.result,
     traceback |-> r.traceback,
     successful |-> IF r.status \in READY_STATES THEN Some(r.status = "SUCCESS") ELSE None,
     failed |-> IF r.status \in READY_STATES THEN Some(r.status = "FAILURE") ELSE None]

\* a slip: an id the backend holds nothing for is answered with an error
get_task_status_strict(task_id) ==
    IF task_id \notin DOMAIN meta
    THEN [task_id |-> task_id, status |-> "UNKNOWN", result |-> None, info |-> None,
          traceback |-> None, successful |-> None, failed |-> None]
    ELSE LET r == meta[task_id]
             ready == r.status \in READY_STATES
         IN [task_id |-> task_id, status |-> r.status,
             result |-> IF ready THEN r.result ELSE None,
             info |-> r.result, traceback |-> r.traceback,
             successful |-> IF ready THEN Some(r.status = "SUCCESS") ELSE None,
             failed |-> IF ready THEN Some(r.status = "FAILURE") ELSE None]

\* TaskService.get_task_status
get_task_status(task_id) ==
    LET r == AsyncResult(task_id)
        ready == r.status \in READY_STATES
    IN [task_id |-> task_id,
        status |-> r.status,
        result |-> IF ready THEN r.result ELSE None,
        info |-> r.result,
        traceback |-> r.traceback,
        successful |-> IF ready THEN Some(r.status = "SUCCESS") ELSE None,
        failed |-> IF ready THEN Some(r.status = "FAILURE") ELSE None]

\* TaskStatusResponse(...): result and info are Optional[Dict[str, Any]]; a stored
\* exception is handed back by the backend as an exception instance, which is no dict
TaskStatusResponse(status) ==
    /\ status.result = None \/ status.result[1].kind = "value"
    /\ status.info = None \/ status.info[1].kind = "value"

\* GET /api/v1/tasks/{task_id}/status
get_task_status_endpoint(task_id) ==
    LET status == get_task_status(task_id) IN
    IF TaskStatusResponse(status)
    THEN [code |-> 200, task_id |-> task_id, status |-> status.status,
          result |-> status.result, info |-> status.info, traceback |-> status.traceback,
          successful |-> status.successful, failed |-> status.failed]
    ELSE [code |-> 500, detail |-> <<"Failed to get task status: ", "ValidationError">>]

\* GET /api/v1/stories/{story_id}
get_story(story_id) ==
    IF story_id \notin DOMAIN stories
    THEN [code |-> 404, detail |-> "Story not found"]
    ELSE [code |-> 200, story |-> stories[story_id]]

\* TaskService.cancel_task: revoke(terminate=True), always True
cancel_task(id) ==
    /\ id \in 1..(nextId - 1) /\ id \notin revoked
    /\ revoked' = revoked \cup {id}
    /\ UNCHANGED <<nextId, calls, broker, meta, exec, stories, nextStoryId, dbClock,
                   stats, losses, scope, budget, waiter, proc>>

\* a slip: get(propagate=False) hands a stored exception back as a value
get_task_result_quiet(task_id) ==
    LET r == AsyncResult(task_id) IN
    IF r.status = "SUCCESS" THEN r.result[1] ELSE Value(r.result[1])

\* TaskService.get_task_result once the task is ready: task_result.get() returns
\* the stored value, or raises the stored exception (FAILURE, REVOKED)
get_task_result(task_id) == AsyncResult(task_id).result[1]

\* GET /api/v1/tasks/{task_id}/result: the answer, given what get_task_result
\* returned or raised
get_task_result_endpoint(task_id, outcome) ==
    IF outcome.kind = "value"
    THEN [code |-> 200, task_id |-> task_id, result |-> outcome.value, success |-> TRUE]
    ELSE [code |-> 500, detail |-> <<"Failed to get task result: ", outcome.msg>>]

Waiting == waiter.pc = "waiting"

Answered(task_id, outcome) ==
    [pc |-> "done", task_id |-> task_id, outcome |-> outcome,
     resp |-> get_task_result_endpoint(task_id, outcome)]

\* a client requests the result of task_id; timeout is the query parameter
\* (default None): the handler blocks in task_result.get(timeout=timeout)
AwaitResult(task_id, timeout) ==
    /\ waiter.pc = "none"
    /\ waiter' = [pc |-> "waiting", task_id |-> task_id, timeout |-> timeout]
    /\ UNCHANGED <<nextId, calls, broker, meta, exec, stories, nextStoryId, dbClock,
                   revoked, stats, losses, scope, budget, proc>>

\* the task is ready: get() returns or raises, and the handler answers
ResultReady ==
    /\ Waiting
    /\ AsyncResult(waiter.task_id).status \in READY_STATES
    /\ waiter' = Answered(waiter.task_id, get_task_result(waiter.task_id))
    /\ UNCHANGED <<nextId, calls, broker, meta, exec, stories, nextStoryId, dbClock,
                   revoked, stats, losses, scope, budget, proc>>

----------------------------------------------------------------------------
(* Time. *)

\* d seconds pass with no other event: retries become due, and after the
\* retention window every stored result has expired.  (A result's age is
\* tracked to the window only: it is kept for at least result_expires.)
Advance(d) ==
    /\ \/ \E m \in broker : m.eta > 0
       \/ d >= result_expires /\ DOMAIN meta # {}
       \/ Waiting /\ waiter.timeout # None
    /\ ~(Waiting /\ AsyncResult(waiter.task_id).status \in READY_STATES)
    /\ broker' = {[m EXCEPT !.eta = Max(@ - d, 0)] : m \in broker}
    /\ meta' = IF d >= result_expires THEN <<>> ELSE meta
    /\ waiter' = IF Waiting /\ waiter.timeout # None
                 THEN IF waiter.timeout[1] <= d
                      THEN Answered(waiter.task_id, Exc("TimeoutError", "The operation timed out."))
                      ELSE [waiter EXCEPT !.timeout = Some(@[1] - d)]
                 ELSE waiter
    /\ UNCHANGED <<nextId, calls, exec, stories, nextStoryId, dbClock, revoked, stats, losses, scope, budget, proc>>

Elapse == \E d \in {RetryCountdown, result_expires} : Advance(d)

----------------------------------------------------------------------------

\* the API process
Submit ==
    \/ \E c \in DirectCalls, ok \in BOOLEAN : DirectSubmit(c, ok)
    \/ \E r \in HttpRequests, ok \in BOOLEAN : HttpSubmit(r, ok)

\* the workers, with the database and the provider failing or not (faults)
Work(faults) ==
    \/ \E w \in Workers, m \in broker : StartAttempt(w, m)
    \/ \E w \in Workers : BeginStory(w)
    \/ \E w \in Workers : BeginLLM(w)
    \/ \E w \in Workers, f \in faults : Commit(w, f)
    \/ \E w \in Workers, f \in faults : Return(w, f)
    \/ \E w \in Workers, f \in faults : ModelCall(w, f)

\* cancellation
Revoke ==
    \/ \E i \in TaskIds : cancel_task(i)
    \/ \E m \in broker : DiscardRevoked(m)
    \/ \E w \in Workers : Terminate(w)

Next == Submit \/ Work(BOOLEAN) \/ Revoke \/ Elapse

\* one API call, with failures and cancellation
Spec == Init /\ [][Next]_vars

\* Spec with workers that keep working and time that keeps passing
Fairness ==
    /\ WF_vars(Work(BOOLEAN))
    /\ WF_vars(\E m \in broker : DiscardRevoked(m))
    /\ WF_vars(\E w \in Workers : Terminate(w))
    /\ WF_vars(Elapse)
SpecLive == Spec /\ Fairness

\* several API calls for one operation, no injected failure, no cancellation
NextPair == Submit \/ Work({FALSE}) \/ Elapse
SpecPair == InitPair /\ [][NextPair]_vars

\* a delete racing with another request on the same story, no injected failure
NextRace ==
    \/ \E c \in DirectCalls, ok \in BOOLEAN : DirectSubmit(c, ok)
    \/ \E w \in Workers, m \in broker : StartAttempt(w, m)
    \/ \E w \in Workers : BeginStory(w)
    \/ \E w \in Workers : Commit(w, FALSE)
    \/ \E w \in Workers : Return(w, FALSE)
    \/ Elapse
SpecRace == InitRace /\ [][NextRace]_vars

\* two updates of one field of one story racing, no injected failure
SpecUpdateRace == InitUpdateRace /\ [][NextRace]_vars

\* no task is queued or executing: every task submitted so far has ended
Quiescent == broker = {} /\ \A w \in Workers : ~Busy(w)

\* a client that publishes and unpublishes a story, each request sent once the
\* task of the one before has ended; the database may fail
NextRoundTrip ==
    \/ \E r \in HttpRequests, ok \in BOOLEAN : Quiescent /\ HttpSubmit(r, ok)
    \/ \E w \in Workers, m \in broker : StartAttempt(w, m)
    \/ \E w \in Workers : BeginStory(w)
    \/ \E w \in Workers, f \in BOOLEAN : Commit(w, f)
    \/ \E w \in Workers, f \in BOOLEAN : Return(w, f)
    \/ Elapse
SpecRoundTrip == InitRoundTrip /\ [][NextRoundTrip]_vars

\* a client of the result endpoint, with and without the timeout parameter
Result ==
    \/ \E i \in 1..(budget + 1), t \in {None, Some(30)} : AwaitResult(i, t)
    \/ ResultReady

\* one API call and one result request, no injected failure, no cancellation
NextResult == Submit \/ Work({FALSE}) \/ Elapse \/ Result
SpecResult == Init /\ [][NextResult]_vars
SpecResultLive ==
    /\ SpecResult
    /\ WF_vars(Work({FALSE})) /\ WF_vars(Elapse) /\ WF_vars(ResultReady)

\* one API call with cancellation and worker processes that may die before they
\* acknowledge their message; no other injected failure
NextLossy ==
    \/ Submit \/ Work({FALSE}) \/ Revoke \/ Elapse
    \/ \E w \in Workers : WorkerLost(w)
    \/ \E w \in Workers : Ack(w)
SpecLossy == InitLossy /\ [][NextLossy]_vars

----------------------------------------------------------------------------
(* Vocabulary of the properties. *)

\* the wrapper call behind API call i
CallOf(i) == IF calls[i].via = "direct" THEN calls[i].call ELSE Handler(calls[i].req).call

\* API call i reached a handler that dispatches (it was not rejected before)
Dispatches(i) == calls[i].via = "direct" \/ Handler(calls[i].req).reject = None

\* the task id API call i handed to its caller, if any
HandleOf(i) ==
    IF calls[i].via = "direct" THEN calls[i].returned
    ELSE IF "task_id" \in DOMAIN calls[i].resp THEN Some(calls[i].resp.task_id) ELSE None

\* API call i published a message (its task id is i)
Sent(i) ==
    /\ i \in DOMAIN calls
    /\ IF calls[i].via = "direct" THEN calls[i].returned # None ELSE calls[i].sent

MsgsOf(i) == {m \in broker : m.id = i}
Executing(i) == \E w \in Workers : Busy(w) /\ exec[w].msg.id = i
StatusOf(i) == AsyncResult(i).status
AllIds == 1..(budget + 1)

\* the call passes a value outside the enum its LLM body validates
InvalidEnum(c) ==
    \/ c.op = "analyze_story" /\ "analysis_type" \in DOMAIN c.kwargs
         /\ c.kwargs.analysis_type \notin {"sentiment", "genre", "full"}
    \/ c.op = "summarize_story" /\ "summary_length" \in DOMAIN c.kwargs
         /\ c.kwargs.summary_length \notin {"brief", "detailed"}
    \/ c.op = "improve_story" /\ "improvement_type" \in DOMAIN c.kwargs
         /\ c.kwargs.improvement_type \notin {"general", "grammar", "style"}

----------------------------------------------------------------------------
(* C1 *)

C1_FixedName(op) ==
    CASE op = "create_story" -> "stories.create_story"
      [] op = "update_story" -> "stories.update_story"
      [] op = "delete_story" -> "stories.delete_story"
      [] op = "patch_story" -> "stories.patch_story"
      [] op = "generate_story" -> "llm.generate_story"
      [] op = "analyze_story" -> "llm.analyze_story"
      [] op = "summarize_story" -> "llm.summarize_story"
      [] op = "improve_story" -> "llm.improve_story"

C1_Bypass(c) == c.retry_config = Some([retry |-> FALSE])

C1_Carries(c, args) ==
    CASE c.op = "create_story" -> args = [story_data |-> c.story_data]
      [] c.op = "update_story" ->
            args = [story_id |-> c.story_id, story_data |-> c.story_data,
                    no_retry |-> C1_Bypass(c)]
      [] c.op = "delete_story" ->
            args = [story_id |-> c.story_id, no_retry |-> C1_Bypass(c)]
      [] c.op = "patch_story" ->
            args = [story_id |-> c.story_id, patch_data |-> c.patch_data]
      [] OTHER -> args = c.kwargs

C1_Fresh(id) ==
    /\ \A j \in DOMAIN calls : HandleOf(j) # Some(id)
    /\ MsgsOf(id) = {} /\ ~Executing(id) /\ id \notin DOMAIN meta

\* C1: a step in which one of the eight wrappers returns a task id publishes exactly
\* one message, under the wrapper's fixed task name, with the caller's parameters
\* and with that id; the step runs no task body, stores no result and changes no
\* story; and the id is one that no earlier submission returned.
C1_SubmitPublishesOneMessage ==
    [][ (/\ nextId' = nextId + 1
         /\ calls'[nextId].via = "direct"
         /\ calls'[nextId].returned # None)
        => LET c == calls'[nextId].call
               id == calls'[nextId].returned[1]
           IN /\ broker \subseteq broker'
              /\ Cardinality(broker' \ broker) = 1
              /\ \A m \in broker' \ broker :
                    /\ m.id = id
                    /\ m.name = C1_FixedName(c.op)
                    /\ C1_Carries(c, m.args)
              /\ C1_Fresh(id)
              /\ stories' = stories /\ nextStoryId' = nextStoryId /\ dbClock' = dbClock
              /\ exec' = exec /\ meta' = meta /\ stats' = stats ]_vars

\* two wrapper calls have both returned, with different task ids
C1_Witness ==
    /\ Len(calls) >= 2
    /\ calls[1].via = "direct" /\ calls[2].via = "direct"
    /\ calls[1].returned # None /\ calls[2].returned # None
    /\ calls[1].returned # calls[2].returned
    /\ calls[1].call.op = "patch_story"

----------------------------------------------------------------------------
(* C2 *)

\* C2: an HTTP submission whose publish failed is answered with a 5xx error that
\* carries the broker client's message and no task id, it is not answered as
\* PENDING, and no task exists for it; a 200 answer means the message was published.
C2_DispatchFailureIs5xx ==
    \A i \in DOMAIN calls :
        (calls[i].via = "http" /\ Dispatches(i)) =>
            LET r == calls[i].resp IN
            IF calls[i].sent
            THEN r.code = 200 /\ r.task_id = i
            ELSE /\ r.code >= 500 /\ r.code <= 599
                 /\ r.detail[2] = BrokerError
                 /\ "task_id" \notin DOMAIN r /\ "status" \notin DOMAIN r
                 /\ MsgsOf(i) = {} /\ ~Executing(i) /\ i \notin DOMAIN meta

\* an HTTP submission failed to publish and was answered 500
C2_Witness ==
    \E i \in DOMAIN calls :
        /\ calls[i].via = "http" /\ Dispatches(i) /\ ~calls[i].sent
        /\ calls[i].resp.code = 500

----------------------------------------------------------------------------
(* C3 *)

C3_Cap(i) == IF CallOf(i).op \in LLMOps THEN 3 ELSE 4

\* C3: the body of an LLM task runs and raises at most 3 times, that of a story
\* task at most 4 times; a retry published by a raising attempt is due 60 s later
\* and an attempt starts only from a due message; once the cap is reached no
\* message of the task is left and none is executing.
C3_RetryCap ==
    /\ [](\A i \in DOMAIN calls :
            Sent(i) => /\ stats[i].runs <= C3_Cap(i)
                       /\ stats[i].raised <= C3_Cap(i)
                       /\ (stats[i].raised = C3_Cap(i)
                             => MsgsOf(i) = {} /\ ~Executing(i)))
    /\ [][\A i \in DOMAIN calls :
            /\ (stats'[i].raised = stats[i].raised + 1)
                  => \A m \in broker' : m.id = i => m.eta = 60 /\ m.retries = stats'[i].raised
            /\ (stats'[i].runs = stats[i].runs + 1)
                  => \E m \in broker : m.id = i /\ m.eta = 0 /\ m \notin broker']_vars

\* a story task has raised on each of its 4 attempts and failed
C3_Witness ==
    \E i \in DOMAIN calls :
        /\ Sent(i) /\ CallOf(i).op \in StoryOps
        /\ stats[i].runs = 4 /\ stats[i].raised = 4
        /\ StatusOf(i) = "FAILURE"

----------------------------------------------------------------------------
(* C4 *)

C4_Case(i) ==
    /\ Sent(i)
    /\ CallOf(i).op \in {"update_story", "delete_story"}
    /\ CallOf(i).retry_config = Some([retry |-> FALSE])
    /\ CallOf(i).story_id = MissingStoryId

\* C4: an update or delete submitted with retry_config {'retry': False} for an id
\* that has no story runs its body at most once, is never in RETRY, never has a
\* retry message, and once the body has raised the task is in FAILURE (until the
\* result expires).
C4_BypassFailsWithoutRetry ==
    \A i \in DOMAIN calls :
        C4_Case(i) =>
            /\ stats[i].runs <= 1 /\ stats[i].raised <= 1
            /\ StatusOf(i) # "RETRY"
            /\ \A m \in MsgsOf(i) : m.retries = 0 /\ m.eta = 0
            /\ (stats[i].raised = 1 =>
                    /\ MsgsOf(i) = {} /\ ~Executing(i)
                    /\ (i \in DOMAIN meta => StatusOf(i) = "FAILURE"))

\* such a task ran once and is in FAILURE
C4_Witness ==
    \E i \in DOMAIN calls :
        C4_Case(i) /\ stats[i].runs = 1 /\ stats[i].raised = 1 /\ StatusOf(i) = "FAILURE"

----------------------------------------------------------------------------
(* C5 *)

\* C5: an LLM task submitted with a value outside its enum is never in RETRY.
C5_InvalidEnumNeverRetry ==
    \A i \in DOMAIN calls :
        (Sent(i) /\ CallOf(i).op \in LLMOps /\ InvalidEnum(CallOf(i)))
            => StatusOf(i) # "RETRY"

----------------------------------------------------------------------------
(* C6 *)

C6_Case(i) ==
    /\ Sent(i)
    /\ CallOf(i).op = "analyze_story"
    /\ CallOf(i).kwargs.analysis_type \notin {"sentiment", "genre", "full"}

\* C6: no attempt of an analyze task whose analysis_type is outside
\* {sentiment, genre, full} acquires the LLM service or makes a model call.
C6_ValidationPrecedesIO ==
    \A i \in DOMAIN calls :
        C6_Case(i) => stats[i].acquired = 0 /\ stats[i].called = 0

\* such a task has run its first attempt and both retries
C6_Witness ==
    \E i \in DOMAIN calls : C6_Case(i) /\ stats[i].runs = 3 /\ stats[i].raised = 3

----------------------------------------------------------------------------
(* C7 *)

\* C7: with workers that keep working, every task that has a message queued or
\* executing eventually is in SUCCESS, FAILURE or REVOKED.
C7_EveryTaskTerminates ==
    \A i \in 1..MaxTasks :
        (MsgsOf(i) # {} \/ Executing(i)) ~> (StatusOf(i) \in READY_STATES)

\* a task that failed, was retried and cancelled has ended in REVOKED
C7_Witness ==
    \E i \in DOMAIN calls :
        /\ Sent(i) /\ stats[i].raised >= 1 /\ i \in revoked
        /\ StatusOf(i) = "REVOKED"

----------------------------------------------------------------------------
(* C8 *)

C8_Bool(x) == x = Some(TRUE) \/ x = Some(FALSE)

\* C8: for a task that is not ready get_task_status answers result, successful and
\* failed as None; for a task in SUCCESS or FAILURE successful and failed are
\* booleans and successful = not failed.
C8_StatusFlags ==
    \A i \in AllIds :
        LET s == get_task_status(i) IN
        /\ (StatusOf(i) \notin {"SUCCESS", "FAILURE", "REVOKED"}
              => s.result = None /\ s.successful = None /\ s.failed = None)
        /\ (StatusOf(i) \in {"SUCCESS", "FAILURE"}
              => /\ C8_Bool(s.successful) /\ C8_Bool(s.failed)
                 /\ s.successful[1] = ~s.failed[1]
                 /\ s.successful[1] = (StatusOf(i) = "SUCCESS"))

\* a task is in RETRY: the backend holds the exception, the status answers None
C8_Witness ==
    \E i \in AllIds :
        /\ StatusOf(i) = "RETRY" /\ AsyncResult(i).result # None
        /\ get_task_status(i).result = None

----------------------------------------------------------------------------
(* C9 *)

\* C9: the result field of a status is non-None only when the status is SUCCESS.
C9_ResultOnlyOnSuccess ==
    \A i \in AllIds :
        get_task_status(i).result # None => get_task_status(i).status = "SUCCESS"

----------------------------------------------------------------------------
(* C10 *)

C10_Shape(s) ==
    [status |-> s.status, result |-> s.result, info |-> s.info,
     traceback |-> s.traceback, successful |-> s.successful, failed |-> s.failed]

C10_Pending ==
    [status |-> "PENDING", result |-> None, info |-> None,
     traceback |-> None, successful |-> None, failed |-> None]

C10_NeverSubmitted(i) == ~Sent(i)
C10_NotStarted(i) == Sent(i) /\ stats[i].runs = 0 /\ MsgsOf(i) # {}
C10_Expired(i) ==
    Sent(i) /\ stats[i].runs > 0 /\ MsgsOf(i) = {} /\ ~Executing(i) /\ i \notin DOMAIN meta

\* C10: get_task_status answers the same PENDING-shaped status for an id that was
\* never submitted, for a task whose result has expired and for a submitted task
\* no worker has started.
C10_UnknownLooksPending ==
    \A i \in AllIds :
        (C10_NeverSubmitted(i) \/ C10_NotStarted(i) \/ C10_Expired(i))
            => C10_Shape(get_task_status(i)) = C10_Pending

\* one id of each kind at once
C10_Witness ==
    \E i, j, k \in AllIds :
        C10_Expired(i) /\ C10_NotStarted(j) /\ C10_NeverSubmitted(k)

----------------------------------------------------------------------------
(* C11 *)

\* C11: for every task in FAILURE the status endpoint answers 200 with status
\* FAILURE, failed true, successful false, and the error info and traceback.
C11_FailurePollAnswers200 ==
    \A i \in AllIds :
        StatusOf(i) = "FAILURE" =>
            LET r == get_task_status_endpoint(i) IN
            /\ r.code = 200
            /\ r.status = "FAILURE"
            /\ r.failed = Some(TRUE) /\ r.successful = Some(FALSE)
            /\ r.info # None /\ r.traceback # None

----------------------------------------------------------------------------
(* C12 *)

\* C12: when a result request ends, get_result has returned a value only if the
\* task is in SUCCESS, and the value is that task's stored result; for a task in
\* FAILURE it has raised the task's error; for a task in no terminal state it has
\* raised a timeout error (and the request carried a timeout).  The endpoint
\* answers 200 {task_id, result, success: true} in the first case only, and 500
\* in the others.
C12_ResultOutcome ==
    [][ (waiter.pc = "waiting" /\ waiter'.pc = "done")
        => LET id == waiter.task_id
               o == waiter'.outcome
               r == waiter'.resp
           IN /\ (o.kind = "value" => StatusOf(id) = "SUCCESS")
              /\ (StatusOf(id) = "SUCCESS" => Some(o) = meta[id].result /\ o.kind = "value")
              /\ (StatusOf(id) = "FAILURE" => Some(o) = meta[id].result /\ o.kind = "exc")
              /\ (StatusOf(id) \notin READY_STATES
                    => waiter.timeout # None /\ o.kind = "exc" /\ o.type = "TimeoutError")
              /\ IF o.kind = "value"
                 THEN r = [code |-> 200, task_id |-> id, result |-> o.value, success |-> TRUE]
                 ELSE r.code = 500 /\ "result" \notin DOMAIN r ]_vars

\* a result request was answered 200 for a task in SUCCESS
C12_Witness ==
    /\ waiter.pc = "done"
    /\ waiter.resp.code = 200
    /\ StatusOf(waiter.task_id) = "SUCCESS"

----------------------------------------------------------------------------
(* C13 *)

\* C13: a result request that carries no timeout parameter completes.
C13_NoTimeoutStillCompletes ==
    (waiter.pc = "waiting" /\ waiter.timeout = None) ~> (waiter.pc = "done")

----------------------------------------------------------------------------
(* C14 *)

C14_Written(e) ==
    CASE e.msg.name = "stories.delete_story" -> e.loaded[1].id \notin DOMAIN stories
      [] e.msg.name = "stories.create_story" -> e.loaded[1].id \in DOMAIN stories
      [] OTHER -> /\ e.loaded[1].id \in DOMAIN stories
                  /\ \A f \in DOMAIN e.pending : stories[e.loaded[1].id][f] = e.pending[f]

\* C14: a step that accepts a cancel request (cancel_task returns True) and a step
\* that enforces one (the task becomes REVOKED) leave every story as it is; only a
\* task's commit changes a story; and a task that has committed and not yet
\* returned finds its write in the table whether or not it has been cancelled.
C14_CancelKeepsCommittedWrite ==
    /\ [][ /\ (revoked' # revoked => stories' = stories)
           /\ (\A i \in DOMAIN meta' :
                  (meta'[i].status = "REVOKED" /\ StatusOf(i) # "REVOKED") => stories' = stories)
           /\ (stories' # stories =>
                  \E w \in Workers : exec[w].pc = "open" /\ exec'[w].pc = "committed") ]_vars
    /\ [](\A w \in Workers : exec[w].pc = "committed" => C14_Written(exec[w]))

\* a task was cancelled and revoked after its attempt had committed a write
C14_Witness ==
    \E i \in revoked :
        /\ StatusOf(i) = "REVOKED"
        /\ stats[i].runs >= 1
        /\ stories # (FirstStoryId :> InitialStory)

----------------------------------------------------------------------------
(* C15 *)

\* the enum field of an LLM request is outside its allowed set
C15_BadEnum(req) ==
    \/ req.endpoint = "POST /llm/analyze"
         /\ req.body.analysis_type \notin {"sentiment", "genre", "full"}
    \/ req.endpoint = "POST /llm/summarize"
         /\ req.body.summary_length \notin {"brief", "detailed"}
    \/ req.endpoint = "POST /llm/improve"
         /\ req.body.improvement_type \notin {"general", "grammar", "style"}

\* a story payload that violates its schema
C15_BadStory(req) ==
    /\ req.endpoint \in {"POST /stories/", "PUT /stories/{id}"}
    /\ \E f \in DOMAIN req.body \cap {"title", "content", "author"} : req.body[f] = ""

\* C15: a request with a story payload that violates the schema, or with an LLM
\* enum field outside its allowed set, publishes no message and is answered with
\* a 4xx error that carries no task id.
C15_RejectedNeverDispatches ==
    [][ (/\ nextId' = nextId + 1
         /\ calls'[nextId].via = "http"
         /\ (C15_BadEnum(calls'[nextId].req) \/ C15_BadStory(calls'[nextId].req)))
        => /\ broker' = broker
           /\ ~calls'[nextId].sent
           /\ "task_id" \notin DOMAIN calls'[nextId].resp
           /\ calls'[nextId].resp.code >= 400 /\ calls'[nextId].resp.code <= 499
           /\ meta' = meta /\ exec' = exec /\ stories' = stories ]_vars

\* an LLM request with a bad enum value and a valid text has been rejected
C15_Witness ==
    \E i \in DOMAIN calls :
        /\ calls[i].via = "http"
        /\ C15_BadEnum(calls[i].req) /\ RequestValid(calls[i].req)
        /\ calls[i].resp.code = 400 /\ ~calls[i].sent

----------------------------------------------------------------------------
(* C16 *)

\* C16: an LLM request whose body is valid but for an enum field outside its
\* allowed set is answered 422.
C16_BadEnumIs422 ==
    \A i \in DOMAIN calls :
        (/\ calls[i].via = "http"
         /\ C15_BadEnum(calls[i].req)
         /\ RequestValid(calls[i].req))
            => calls[i].resp.code = 422

----------------------------------------------------------------------------
(* C17 *)

C17_Case(i) ==
    /\ calls[i].via = "http"
    /\ calls[i].req.endpoint \in {"PUT /stories/{id}", "DELETE /stories/{id}"}
    /\ calls[i].req.query = [no_retry |-> "true"]
    /\ calls[i].req.story_id = MissingStoryId
    /\ calls[i].sent

\* C17: the task submitted by PUT or DELETE /stories/{id}?no_retry=true for an id
\* that has no story runs once and is never in RETRY.
C17_NoRetryQueryBypasses ==
    \A i \in DOMAIN calls :
        C17_Case(i) => /\ stats[i].runs <= 1
                       /\ StatusOf(i) # "RETRY"
                       /\ \A m \in MsgsOf(i) : m.args.no_retry

----------------------------------------------------------------------------
(* C18 *)

C18_Case(i) == Sent(i) /\ CallOf(i).op = "create_story" /\ StatusOf(i) = "SUCCESS"

\* C18: the result of a create_story task in SUCCESS is a snapshot with an integer
\* id, with title, content, author, genre and is_published equal to the payload
\* (genre null and is_published false when omitted), created_at set, updated_at
\* null; and get(id) yields that story.
C18_CreateReturnsInput ==
    \A i \in DOMAIN calls :
        C18_Case(i) =>
            LET v == meta[i].result[1].value
                d == CallOf(i).story_data
            IN /\ v.id \in Nat
               /\ v.title = d.title /\ v.content = d.content /\ v.author = d.author
               /\ v.genre = Get(d, "genre", None)
               /\ v.is_published = Get(d, "is_published", FALSE)
               /\ v.created_at # None /\ v.updated_at = None
               /\ get_story(v.id).code = 200
               /\ Snapshot(get_story(v.id).story) = v

\* a create task with is_published true in its payload has succeeded
C18_Witness ==
    \E i \in DOMAIN calls :
        /\ C18_Case(i)
        /\ "is_published" \in DOMAIN CallOf(i).story_data
        /\ CallOf(i).story_data.is_published
        /\ meta[i].result[1].value.id \in DOMAIN stories

----------------------------------------------------------------------------
(* C19 *)

\* the commit of an update task writes the payload's fields and leaves the columns
\* cols it does not name, and every other story, as they were
C19_CommitStep(cols) ==
    \A w \in Workers :
        (/\ exec[w].pc = "open" /\ exec'[w].pc = "committed"
         /\ exec[w].msg.name = "stories.update_story"
         /\ exec[w].msg.args.story_id \in DOMAIN stories)
        => LET id == exec[w].msg.args.story_id
               p == exec[w].msg.args.story_data
           IN /\ DOMAIN stories' = DOMAIN stories
              /\ \A k \in DOMAIN stories \ {id} : stories'[k] = stories[k]
              /\ \A f \in DOMAIN p : stories'[id][f] = p[f]
              /\ \A f \in cols \ DOMAIN p : stories'[id][f] = stories[id][f]

C19_Case(i) == Sent(i) /\ CallOf(i).op = "update_story" /\ StatusOf(i) = "SUCCESS"

\* the snapshot a successful update returns shows the payload's values
C19_Returned ==
    \A i \in DOMAIN calls :
        C19_Case(i) =>
            \A f \in DOMAIN CallOf(i).story_data :
                meta[i].result[1].value[f] = CallOf(i).story_data[f]

----------------------------------------------------------------------------
(* C20 *)

C20_Deleted(i) == Sent(i) /\ CallOf(i).op = "delete_story" /\ StatusOf(i) = "SUCCESS"

\* the commit step of a task named name
C20_CommitOf(name) ==
    \E w \in Workers :
        exec[w].pc = "open" /\ exec'[w].pc = "committed" /\ exec[w].msg.name = name

\* C20 as amended: the commit of a delete_story task leaves no row under its id,
\* and a row appears under an id that had none only in the commit of a
\* create_story task: update and patch tasks in flight never bring the row back.
C20_DeletedStaysDeleted ==
    [][ /\ \A w \in Workers :
              (/\ exec[w].pc = "open" /\ exec'[w].pc = "committed"
               /\ exec[w].msg.name = "stories.delete_story")
              => exec[w].msg.args.story_id \notin DOMAIN stories'
        /\ (DOMAIN stories' \ DOMAIN stories # {}) => C20_CommitOf("stories.create_story")
      ]_vars

\* C20 as stated: once a delete_story task for an id is in SUCCESS, get(id)
\* answers not-found.
C20_DeletedStaysDeletedAsStated ==
    \A i \in DOMAIN calls :
        C20_Deleted(i) => get_story(CallOf(i).story_id).code = 404

\* an update or patch that had loaded the row before the delete committed has
\* failed its own commit, the delete has succeeded, and the row is gone
C20_Witness ==
    \E i, j \in DOMAIN calls :
        /\ C20_Deleted(i)
        /\ Sent(j) /\ CallOf(j).op \in {"update_story", "patch_story"}
        /\ CallOf(j).story_id = CallOf(i).story_id
        /\ j \in DOMAIN meta /\ meta[j].result[1].kind = "exc"
        /\ meta[j].result[1].type = "StaleDataError"
        /\ get_story(CallOf(i).story_id).code = 404

----------------------------------------------------------------------------
\* the value the publish (TRUE) or unpublish (FALSE) request of call i asks for
C21_Asked(i) == calls[i].req.endpoint = "PATCH /stories/{id}/publish"

C21_Succeeded(i) ==
    /\ calls[i].via = "http" /\ calls[i].sent
    /\ calls[i].req.endpoint \in {"PATCH /stories/{id}/publish",
                                   "PATCH /stories/{id}/unpublish"}
    /\ StatusOf(i) = "SUCCESS"

\* C21: publish followed by unpublish is a round trip on is_published.  When the
\* requests follow one another, GET /stories/{id} shows is_published true after a
\* successful publish and false after a following successful unpublish (it shows
\* what the latest successful request asked for), and the commit of either task
\* leaves every other column of the story but updated_at as it was.
C21_PublishUnpublishRoundTrip ==
    /\ [](\A i \in DOMAIN calls :
            (i = Len(calls) /\ C21_Succeeded(i))
            => /\ get_story(calls[i].req.story_id).code = 200
               /\ get_story(calls[i].req.story_id).story.is_published = C21_Asked(i))
    /\ [][ \A w \in Workers :
              (exec[w].pc = "open" /\ exec'[w].pc = "committed")
              => LET id == exec[w].msg.args.story_id IN
                 /\ stories'[id].is_published = C21_Asked(exec[w].msg.id)
                 /\ \A c \in StoryColumns \ {"is_published", "updated_at"} :
                        stories'[id][c] = stories[id][c] ]_vars

\* the story was published, then unpublished, both tasks succeeded, and it is
\* unpublished again with the columns it started with
C21_Witness ==
    /\ Len(calls) = 2
    /\ C21_Succeeded(1) /\ C21_Asked(1)
    /\ C21_Succeeded(2) /\ ~C21_Asked(2)
    /\ get_story(FirstStoryId).story.is_published = FALSE
    /\ get_story(FirstStoryId).story.updated_at # None
    /\ \A c \in StoryColumns \ {"updated_at"} :
           get_story(FirstStoryId).story[c] = InitialStory[c]

----------------------------------------------------------------------------
\* C22: after any sequence of create, update, patch and delete tasks, with any
\* payload a direct caller of the task service can pass, every stored story has
\* a non-empty title, content and author.
C22_StoredStoriesNonEmpty ==
    \A id \in DOMAIN stories :
        stories[id].title # "" /\ stories[id].content # "" /\ stories[id].author # ""

----------------------------------------------------------------------------
\* worker w commits an update_story task in this step
C23_UpdateCommits(w) ==
    /\ exec[w].pc = "open" /\ exec'[w].pc = "committed"
    /\ exec[w].msg.name = "stories.update_story"

\* C23 as amended: two update tasks that set the title of one story to different
\* values and run concurrently are applied in either order; no attempt of either
\* is rejected (nothing raises, there is no version check), and the title after a
\* commit is the one of the committing task whenever that task writes, that is
\* whenever its value differs from the row as it loaded it.  A task whose value
\* equals the loaded one writes nothing: its commit leaves the table as it is.
C23_LastWriterWins ==
    /\ [](\A i \in DOMAIN stats : stats[i].raised = 0)
    /\ [][ \A w \in Workers :
              C23_UpdateCommits(w)
              => IF Changed(exec[w].loaded[1], exec[w].pending) # {}
                 THEN stories'[exec[w].msg.args.story_id].title
                        = exec[w].msg.args.story_data.title
                 ELSE stories' = stories ]_vars

\* C23 as stated: the title after the commit of an update task is always the
\* one of that task (the task that committed last).
C23_LastWriterWinsAsStated ==
    [][ \A w \in Workers :
          C23_UpdateCommits(w)
          => stories'[exec[w].msg.args.story_id].title
               = exec[w].msg.args.story_data.title ]_vars

\* two updates with different titles both succeeded; the second one committed
\* first (its result shows its own title) and the first one overwrote it
C23_Witness ==
    /\ Len(calls) = 2 /\ Sent(1) /\ Sent(2)
    /\ CallOf(1).story_data.title # CallOf(2).story_data.title
    /\ StatusOf(1) = "SUCCESS" /\ StatusOf(2) = "SUCCESS"
    /\ meta[2].result[1].value.title = CallOf(2).story_data.title
    /\ stories[FirstStoryId].title = CallOf(1).story_data.title

----------------------------------------------------------------------------
\* call i is an update, delete or patch on an id that has no story, submitted
\* without the bypass
C24_Case(i) ==
    /\ Sent(i)
    /\ CallOf(i).op \in {"update_story", "delete_story", "patch_story"}
    /\ CallOf(i).story_id = MissingStoryId
    /\ CallOf(i).op # "patch_story" => ~Wrapper(CallOf(i)).args.no_retry

----------------------------------------------------------------------------
\* C25: the error recorded with a FAILURE status (info and traceback) is the one
\* the task's last attempt raised.
C25_FailureRecordsLastError ==
    \A i \in DOMAIN calls :
        (Sent(i) /\ StatusOf(i) = "FAILURE")
        => /\ stats[i].last # None
           /\ get_task_status(i).info = stats[i].last
           /\ get_task_status(i).traceback = TracebackOf(stats[i].last[1])

\* a task failed after 4 attempts, the first of which raised another error
\* than the last, and its status shows the last one
C25_Witness ==
    \E i \in DOMAIN calls :
        /\ Sent(i) /\ StatusOf(i) = "FAILURE"
        /\ stats[i].raised = StoryMaxRetries + 1
        /\ stats[i].first # stats[i].last
        /\ get_task_status(i).info = stats[i].last

----------------------------------------------------------------------------
\* C26: terminal states are absorbing.  Once the backend holds SUCCESS, FAILURE
\* or REVOKED for a task, no step (a scheduled retry, a redelivery of the message
\* after a worker loss, a cancel request) changes the status or the result it
\* holds for that task, for as long as it holds one.
C26_TerminalIsAbsorbing ==
    [][ \A i \in DOMAIN meta :
          (meta[i].status \in READY_STATES /\ i \in DOMAIN meta')
          => meta'[i] = meta[i] ]_vars

----------------------------------------------------------------------------
\* the create_story tasks submitted, and the rows inserted since the start
C27_CreateTasks == {i \in DOMAIN calls : Sent(i) /\ CallOf(i).op = "create_story"}
C27_Inserted == {k \in DOMAIN stories : stories[k].created_at > InitialStory.created_at}

\* C27: a create_story task inserts exactly one story over all its attempts.
\* There are never more inserted rows than create tasks, and a create task in
\* SUCCESS returns the id of a row, the only one it inserted.
C27_CreateInsertsOnce ==
    /\ Cardinality(C27_Inserted) <= Cardinality(C27_CreateTasks)
    /\ \A i \in C27_CreateTasks :
          StatusOf(i) = "SUCCESS" => meta[i].result[1].value.id \in C27_Inserted

----------------------------------------------------------------------------
\* C28: every attempt of a story task releases the database session it opened
\* before it ends, on every exit path: a worker process in which no task body
\* is executing holds no open session (and one that executes a body holds at
\* most the one session of that body).
C28_SessionReleased ==
    \A w \in Workers :
        /\ ~Running(w) => proc[w].open = 0
        /\ proc[w].open <= 1

\* attempts of a story task have ended by a scheduled retry, by a bypassed
\* re-raise or by a return, and no worker holds a session
C28_Witness ==
    /\ \E i \in DOMAIN calls :
          /\ Sent(i) /\ CallOf(i).op \in StoryOps
          /\ \/ StatusOf(i) = "RETRY"
             \/ C4_Case(i) /\ StatusOf(i) = "FAILURE"
             \/ StatusOf(i) = "SUCCESS" /\ stats[i].raised > 0
    /\ \A w \in Workers : ~Busy(w) /\ proc[w].open = 0

----------------------------------------------------------------------------
\* C29: no database session and no LLM service instance (with its usage
\* counters) used by one task execution is used by another one in the same
\* worker process: a body that has taken its session holds the only session
\* open in its process, and a body that has taken its LLM service and not yet
\* called it holds an instance no execution has used, its counters as the
\* constructor leaves them.
C29_NothingShared ==
    \A w \in Workers :
        exec[w].pc = "open"
        => IF IsLLM(w) THEN get_llm_service(w) = LLMService
                       ELSE proc[w].open = 1

----------------------------------------------------------------------------
\* C30: for every update_story or patch_story task that reaches SUCCESS,
\* whatever fields and values it supplies, the story's updated_at is set
\* afterwards and its created_at is as it was.
C30_UpdatedAtSet ==
    \A i \in DOMAIN calls :
        (/\ Sent(i) /\ CallOf(i).op \in {"update_story", "patch_story"}
         /\ StatusOf(i) = "SUCCESS")
        => LET shown == get_story(CallOf(i).story_id) IN
           /\ shown.code = 200
           /\ shown.story.updated_at # None
           /\ shown.story.created_at = InitialStory.created_at

====
